---- MODULE Spec2Model ----
(***************************************************************************)
(* Saudi Health Analytics front end (assets/js/app.js): the APIClient, the *)
(* AnalyticsEngine cache and the dashboard refresh loop of                 *)
(* HealthWorkforceApp, as state machines.                                  *)
(*                                                                         *)
(*   Spec       the dashboard controller: the initial load, the 5-minute   *)
(*              timer, the refresh button and the overlapping refresh      *)
(*              cycles they start                                          *)
(*   SpecLive   Spec with a transport that settles every fetch             *)
(*   SpecApi    APIClient.request and its accessors against a transport    *)
(*   SpecCache  AnalyticsEngine.setCacheItem / getCacheItem over time      *)
(*   SpecCalc   AnalyticsEngine.calculate* applied to arguments            *)
(*   SpecPrefs  the theme toggle and LanguageManager over page loads        *)
(*   SpecHar    a HAR page (js/dashboard.js or js/provider.js): its         *)
(*              WebSocket with the reconnect timer, and the alerts list    *)
(*   SpecHarLive  SpecHar with timers that fire                            *)
(*   SpecDream  the Dream Analyzer's analyze button (script.js)            *)
(*                                                                         *)
(* JavaScript runs each handler to its next await without interleaving, so *)
(* an action is one such run: a trigger up to the first await, or the      *)
(* settling of an awaited promise with the continuation behind it.         *)
(***************************************************************************)
EXTENDS Integers, Sequences, FiniteSets, Bags, TLC

VARIABLES
    \* ---- dashboard controller (HealthWorkforceApp)
    cycles,          \* one record per invocation of loadInitialData
    data,            \* HealthWorkforceApp.data: dashboard, lastUpdated
    refreshBtn,      \* the #refresh-data element: present, disabled
    transportCalls,  \* number of fetch() calls the transport has received
    triggers,        \* invocations of refreshDashboardData by timer and by
                     \* click, and whether a click came during a click's cycle
    lastDash,        \* the cycle whose dashboard fetch was the last to
                     \* resolve with an object payload (0 when none has),
                     \* and whether a later-started cycle's had done so before
    \* ---- APIClient
    reqs,            \* the invocations of APIClient.request: a bag, one
                     \* copy of a record per invocation it describes
    netLog,          \* the fetch() calls the transport has received: a bag
    \* ---- AnalyticsEngine cache
    cache,           \* this.cache: key -> [value, expiry]
    now,             \* Date.now()
    lastOp,          \* the cache call made last and what it returned; for
                     \* a get made right after a set of its key, that set
    \* ---- AnalyticsEngine metrics
    metrics,         \* the calculate* call made last: its argument and result
    \* ---- theme and language preferences
    page,            \* the document and LanguageManager: the theme class of
                     \* body, currentLanguage, dir, the elements present
    storage,         \* localStorage: key -> string, "" when the key is unset
    starts,          \* page loads so far
    \* ---- HAR pages (js/dashboard.js, js/provider.js)
    script,          \* the script the page runs: "dashboard" or "provider"
    sockets,         \* readyState of every WebSocket made so far, in order
    timers,          \* pending setTimeout timers: callback and delay
    alertsList,      \* child nodes of .alerts-list of the dashboard, first
                     \* to last: whitespace text nodes and alert items
    alertCalls,      \* calls of addNewAlert so far
    harEvent,        \* the handler that ran last
    \* ---- Dream Analyzer (script.js)
    dreamText,       \* #dream-text.value
    analyzeBtn,      \* #analyze-btn: disabled, label
    analyses,        \* analyses begun and not finished: how each will end
    resultsMarkup,   \* whether the elements updateResults writes to exist
    dreamLog         \* runs of the click listener and of its continuation

ctlVars   == <<cycles, data, refreshBtn, transportCalls, triggers, lastDash>>
apiVars   == <<reqs, netLog>>
cacheVars == <<cache, now, lastOp>>
calcVars  == <<metrics>>
prefVars  == <<page, storage, starts>>
harVars   == <<script, sockets, timers, alertsList, alertCalls, harEvent>>
dreamVars == <<dreamText, analyzeBtn, analyses, resultsMarkup, dreamLog>>
vars      == <<ctlVars, apiVars, cacheVars, calcVars, prefVars, harVars, dreamVars>>

-----------------------------------------------------------------------------
(* Bounds of the model *)

MaxCycles   == 3    \* invocations of loadInitialData, the initial load included
MaxRequests == 2    \* invocations of APIClient.request in SpecApi
MaxDrift    == 1    \* millisecond steps of the clock between two long waits
MaxWaits    == 1    \* waits of DefaultTtl milliseconds in SpecCache
MaxField    == 3    \* numeric fields of a metrics argument are in -MaxField..MaxField
MaxStarts   == 2    \* page loads in SpecPrefs
MaxClicks   == 3    \* theme and language clicks handled per page load
MaxConnects == 3    \* WebSockets made by one HAR page
MaxAlertCalls == 3  \* calls of addNewAlert on one HAR dashboard page
MaxAnalyzeClicks == 4  \* runs of the analyze button's click listener

-----------------------------------------------------------------------------
(* JSON values.  An object payload is tagged by a positive number; null is *)
(* the one falsy body the model draws.                                     *)

JsonNull    == 0
EmptyObject == -1                     \* data.dashboard: {}
Truthy(v)   == v # JsonNull

\* The object payload a fetch of cycle c receives: distinct per cycle, so that
\* the snapshot shows whose payload it holds.
Payload(c)  == c

-----------------------------------------------------------------------------
(* The transport: what fetch() and response.json() can settle with         *)

NoError == [name |-> "", message |-> ""]

\* fetch(): a network-level failure rejects with a TypeError; any HTTP
\* response, whatever its status, resolves.
FetchOutcomes ==
    { [net |-> "error",    status |-> 0,   statusText |-> ""],
      [net |-> "response", status |-> 200, statusText |-> "OK"],
      [net |-> "response", status |-> 404, statusText |-> "Not Found"],
      [net |-> "response", status |-> 500, statusText |-> "Internal Server Error"] }

\* response.ok
ResponseOk(status) == status >= 200 /\ status <= 299

\* response.json(): the parsed body, a SyntaxError on a malformed body, a
\* TypeError when the body stream fails.
BodyKinds == {"value", "malformed", "dropped"}

NetworkError == [name |-> "TypeError",   message |-> "Failed to fetch"]
ParseError   == [name |-> "SyntaxError", message |-> "Unexpected token in JSON"]
StreamError  == [name |-> "TypeError",   message |-> "Failed to fetch"]

\* new Error(`HTTP ${response.status}: ${response.statusText}`)
HttpMessageNoStatus(status, statusText) == "HTTP error"
HttpMessage(status, statusText) ==
    "HTTP " \o ToString(status) \o ": " \o statusText

HttpError(status, statusText) ==
    [name |-> "Error", message |-> HttpMessage(status, statusText)]

-----------------------------------------------------------------------------
(* APIClient.request, from the awaited fetch() on                          *)

\* The catch block of request: console.error, then `throw error`, the error
\* it caught, as it caught it.
RethrowWrapped(error) == [name |-> "Error", message |-> error.message]
Rethrow(error) == error

\* `const response = await fetch(...)`, then the !response.ok test: the
\* request goes on to response.json() or is rejected.
AfterFetch(t) ==
    IF t.net = "error"
    THEN [stage |-> "rejected", error |-> Rethrow(NetworkError)]
    ELSE IF ~ResponseOk(t.status)
         THEN [stage |-> "rejected",
               error |-> Rethrow(HttpError(t.status, t.statusText))]
         ELSE [stage |-> "json", error |-> NoError]

\* `return await response.json()`
AfterJson(kind, value) ==
    CASE kind = "value" ->
           [stage |-> "resolved", value |-> value, error |-> NoError]
      [] kind = "malformed" ->
           [stage |-> "rejected", value |-> JsonNull, error |-> Rethrow(ParseError)]
      [] kind = "dropped" ->
           [stage |-> "rejected", value |-> JsonNull, error |-> Rethrow(StreamError)]

\* The whole of request() seen from its caller: how the promise settles when
\* the transport answers fetch() with t and the body with (kind, value).
RequestOutcome(t, kind, value) ==
    LET f == AfterFetch(t)
    IN  IF f.stage = "rejected"
        THEN [stage |-> "rejected", value |-> JsonNull, error |-> f.error]
        ELSE AfterJson(kind, value)

\* Every way a request can settle when its body, if parsed, is one of values.
Outcomes(values) ==
    {RequestOutcome(t, kind, v) : t \in FetchOutcomes, kind \in BodyKinds, v \in values}

-----------------------------------------------------------------------------
(* APIClient: the constructor, request up to its first await, the accessors *)

\* CONFIG.API_BASE: window.location.origin + '/api/v1'
Origin  == "https://health.example"
baseURL == Origin \o "/api/v1"

\* this.headers, set by the constructor.  Headers are sets of <<name, value>>.
DefaultHeaders == {<<"Content-Type", "application/json">>}

\* The options argument of request: the keys it has, and their values.
NoOptions == [keys |-> {}, headers |-> {}, method |-> ""]
OptionChoices ==
    << NoOptions,
       [keys |-> {"headers"}, headers |-> {<<"Authorization", "Bearer t">>},
        method |-> ""],
       [keys |-> {"headers"}, headers |-> {<<"Content-Type", "text/plain">>},
        method |-> ""],
       [keys |-> {"method"}, headers |-> {}, method |-> "POST"] >>

HeaderNames(headers) == {h[1] : h \in headers}

\* { headers: this.headers, ...options }: a spread copies the keys of options
\* over the keys written before it, so a headers key of options replaces
\* this.headers whole.  fetch sends GET when the init names no method.
FetchInit(defaults, options) ==
    [headers |-> IF "headers" \in options.keys THEN options.headers ELSE defaults,
     method  |-> IF "method" \in options.keys THEN options.method ELSE "GET"]

\* The accessors, with the arguments their callers in app.js pass (the
\* dashboard and training accessors are called with none).
Accessors ==
    {"getExecutiveDashboard", "getTrainingCapacity", "getWorkforceProjections",
     "getPopulationDemographics", "getHealthSurveillance", "getSkillsGapAnalysis",
     "getScenarioAnalysis", "getWorkforceAnalysisReport",
     "getPopulationHealthReport", "getTrainingCapacityReport"}

\* URLSearchParams of the optional region_id, then one more parameter.
RegionParams(regionId, name, value) ==
    (IF regionId # 0 THEN "region_id=" \o ToString(regionId) \o "&" ELSE "")
        \o name \o "=" \o value

\* The endpoint each accessor passes to request.  regionId 0 is null.
AccessorEndpoint(a, regionId, categoryId) ==
    LET r == ToString(regionId)
        c == ToString(categoryId)
    IN  CASE a = "getExecutiveDashboard" ->
               "/reports/executive-dashboard?" \o RegionParams(regionId, "language", "en")
          [] a = "getTrainingCapacity" ->
               "/training/capacity?" \o RegionParams(regionId, "years", "5")
          [] a = "getWorkforceProjections" ->
               "/workforce/projections/" \o r \o "/" \o c \o "?years=5"
          [] a = "getPopulationDemographics" ->
               "/population/demographics/" \o r \o "?years=10"
          [] a = "getHealthSurveillance" ->
               "/health/surveillance/" \o r
          [] a = "getSkillsGapAnalysis" ->
               "/training/skills-gap/" \o r
          [] a = "getScenarioAnalysis" ->
               "/scenario-analysis/" \o r \o "/" \o c
          [] a = "getWorkforceAnalysisReport" ->
               "/reports/workforce-analysis/" \o r \o "?years=5&language=en"
          [] a = "getPopulationHealthReport" ->
               "/reports/population-health/" \o r \o "?language=en"
          [] a = "getTrainingCapacityReport" ->
               "/reports/training-capacity?language=en"

RegionArg(a) ==
    IF a \in {"getExecutiveDashboard", "getTrainingCapacity"} THEN 0 ELSE 1

Api == [reqs |-> reqs, netLog |-> netLog]

One(x) == SetToBag({x})

\* What request passes to fetch: the url and the init object.
FetchCall(endpoint, opt) ==
    LET init == FetchInit(DefaultHeaders, OptionChoices[opt])
    IN  [url |-> baseURL \o endpoint, options |-> opt,
         headers |-> init.headers, method |-> init.method]

NewRequest(endpoint, opt) ==
    [endpoint |-> endpoint, options |-> opt, stage |-> "fetch",
     cause |-> "", status |-> 0, value |-> JsonNull, error |-> NoError]

\* request(endpoint, options) from its entry to `await fetch(...)`: one call of
\* fetch, with no look at the requests in flight or settled before.
requestShared(s, endpoint, opt) ==
    IF \E r \in BagToSet(s.reqs) : r.endpoint = endpoint
    THEN [s EXCEPT !.reqs = @ (+) One(NewRequest(endpoint, opt))]
    ELSE [reqs   |-> s.reqs (+) One(NewRequest(endpoint, opt)),
          netLog |-> s.netLog (+) One(FetchCall(endpoint, opt))]
request(s, endpoint, opt) ==
    [reqs   |-> s.reqs (+) One(NewRequest(endpoint, opt)),
     netLog |-> s.netLog (+) One(FetchCall(endpoint, opt))]

\* request r when its fetch() settles with t.  cause records which of the
\* failure classes (network, status, parse) the transport produced.
onFetchSettled(s, r, t) ==
    LET f == AfterFetch(t)
        q == [r EXCEPT !.stage = f.stage,
                       !.error = f.error,
                       !.status = t.status,
                       !.cause = IF t.net = "error" THEN "network"
                                 ELSE IF f.stage = "rejected" THEN "status"
                                 ELSE ""]
    IN  [s EXCEPT !.reqs = (@ (-) One(r)) (+) One(q)]

\* request r when its response.json() settles.
onJsonSettled(s, r, kind, value) ==
    LET j == AfterJson(kind, value)
        q == [r EXCEPT !.stage = j.stage,
                       !.error = j.error,
                       !.value = j.value,
                       !.cause = CASE kind = "malformed" -> "parse"
                                   [] kind = "dropped"   -> "network"
                                   [] OTHER              -> ""]
    IN  [s EXCEPT !.reqs = (@ (-) One(r)) (+) One(q)]

-----------------------------------------------------------------------------
(* AnalyticsEngine: the cache                                              *)

\* setCacheItem(key, value, ttl = 300000)
DefaultTtl == 300000

\* this.cache.set(key, {value, expiry: Date.now() + ttl})
setCacheItemNoClock(c, t, key, value, ttl) ==
    [k \in DOMAIN c \cup {key} |->
        IF k = key THEN [value |-> value, expiry |-> ttl] ELSE c[k]]
setCacheItemKeepExisting(c, t, key, value, ttl) ==
    IF key \in DOMAIN c
    THEN c
    ELSE [k \in DOMAIN c \cup {key} |->
            IF k = key THEN [value |-> value, expiry |-> t + ttl] ELSE c[k]]
setCacheItemSweeping(c, t, key, value, ttl) ==
    [k \in {j \in DOMAIN c : t <= c[j].expiry} \cup {key} |->
        IF k = key THEN [value |-> value, expiry |-> t + ttl] ELSE c[k]]
setCacheItemSingleSlot(c, t, key, value, ttl) ==
    [k \in {key} |-> [value |-> value, expiry |-> t + ttl]]
setCacheItem(c, t, key, value, ttl) ==
    [k \in DOMAIN c \cup {key} |->
        IF k = key THEN [value |-> value, expiry |-> t + ttl] ELSE c[k]]

\* getCacheItem(key): the cache afterwards and the value returned.  A missing
\* entry and an expired one both return null; the expired one is deleted.
getCacheItemKeepsExpired(c, t, key) ==
    IF key \in DOMAIN c /\ t <= c[key].expiry
    THEN [cache |-> c, ret |-> c[key].value]
    ELSE [cache |-> c, ret |-> JsonNull]
getCacheItemNoExpiry(c, t, key) ==
    IF key \in DOMAIN c
    THEN [cache |-> c, ret |-> c[key].value]
    ELSE [cache |-> c, ret |-> JsonNull]
getCacheItemStrict(c, t, key) ==
    IF key \notin DOMAIN c
    THEN [cache |-> c, ret |-> JsonNull]
    ELSE IF t >= c[key].expiry
         THEN [cache |-> [k \in DOMAIN c \ {key} |-> c[k]], ret |-> JsonNull]
         ELSE [cache |-> c, ret |-> c[key].value]
getCacheItem(c, t, key) ==
    IF key \notin DOMAIN c
    THEN [cache |-> c, ret |-> JsonNull]
    ELSE IF t > c[key].expiry
         THEN [cache |-> [k \in DOMAIN c \ {key} |-> c[k]], ret |-> JsonNull]
         ELSE [cache |-> c, ret |-> c[key].value]

-----------------------------------------------------------------------------
(* AnalyticsEngine: the metrics.  JavaScript numbers are modelled as exact *)
(* fractions, with NaN and the infinities; rounding is not modelled.       *)

Undefined == [t |-> "undefined", num |-> 0, den |-> 1]
Null      == [t |-> "null", num |-> 0, den |-> 1]
NaN       == [t |-> "NaN", num |-> 0, den |-> 1]
Num(n)    == [t |-> "number", num |-> n, den |-> 1]
Infinity(sign) == [t |-> "Infinity", num |-> sign, den |-> 1]

Abs(n)  == IF n < 0 THEN -n ELSE n
Sign(n) == IF n < 0 THEN -1 ELSE IF n > 0 THEN 1 ELSE 0

RECURSIVE GCD(_, _)
GCD(a, b) == IF b = 0 THEN a ELSE GCD(b, a % b)

\* The fraction n / d, d # 0, in lowest terms with a positive denominator.
Fraction(n, d) ==
    LET g == GCD(Abs(n), Abs(d))
    IN  [t |-> "number", num |-> (Sign(d) * n) \div g, den |-> Abs(d) \div g]

\* ToNumber of the values a field can hold
ToNumber(v) ==
    CASE v.t = "undefined" -> NaN
      [] v.t = "null"      -> Num(0)
      [] OTHER             -> v

\* v > 0
GreaterThanZero(v) ==
    LET x == ToNumber(v)
    IN  (x.t = "number" \/ x.t = "Infinity") /\ x.num > 0

\* v is truthy
TruthyNumber(v) == v.t = "Infinity" \/ (v.t = "number" /\ v.num # 0)

\* a / b
Divide(a, b) ==
    LET x == ToNumber(a)
        y == ToNumber(b)
    IN  IF x.t = "NaN" \/ y.t = "NaN" THEN NaN
        ELSE IF y.t = "Infinity"
             THEN IF x.t = "Infinity" THEN NaN ELSE Num(0)
        ELSE IF x.t = "Infinity"
             THEN Infinity(x.num * (IF y.num < 0 THEN -1 ELSE 1))
        ELSE IF y.num = 0
             THEN IF x.num = 0 THEN NaN ELSE Infinity(Sign(x.num))
        ELSE Fraction(x.num * y.den, x.den * y.num)

\* a * b
Multiply(a, b) ==
    LET x == ToNumber(a)
        y == ToNumber(b)
    IN  IF x.t = "NaN" \/ y.t = "NaN" THEN NaN
        ELSE IF x.t = "Infinity" \/ y.t = "Infinity"
             THEN IF x.num = 0 \/ y.num = 0 THEN NaN
                  ELSE Infinity(Sign(x.num) * Sign(y.num))
        ELSE Fraction(x.num * y.num, x.den * y.den)

\* What a call does: return a value, or throw.
Return(v) == [threw |-> FALSE, value |-> v]
Throws    == [threw |-> TRUE, value |-> Undefined]

\* const { filled, authorized } = data;
\* return authorized > 0 ? (filled / authorized) * 100 : 0;
\* Destructuring throws a TypeError when data is undefined or null.
calculateUtilizationRateUnguarded(d) ==
    IF ~d.isObject THEN Throws
    ELSE Return(Multiply(Divide(d.filled, d.authorized), Num(100)))
calculateUtilizationRate(d) ==
    IF ~d.isObject THEN Throws
    ELSE Return(IF GreaterThanZero(d.authorized)
                THEN Multiply(Divide(d.filled, d.authorized), Num(100))
                ELSE Num(0))

\* const { workload, workforce } = data;
\* return workforce > 0 ? workload / workforce : 0;
calculateProductivityIndexTruthy(d) ==
    IF ~d.isObject THEN Throws
    ELSE Return(IF TruthyNumber(d.workforce)
                THEN Divide(d.workload, d.workforce)
                ELSE Num(0))
calculateProductivityIndex(d) ==
    IF ~d.isObject THEN Throws
    ELSE Return(IF GreaterThanZero(d.workforce)
                THEN Divide(d.workload, d.workforce)
                ELSE Num(0))

\* const { totalCost, servicesDelivered } = data;
\* return servicesDelivered > 0 ? totalCost / servicesDelivered : 0;
calculateCostEffectiveness(d) ==
    IF ~d.isObject THEN Throws
    ELSE Return(IF GreaterThanZero(d.servicesDelivered)
                THEN Divide(d.totalCost, d.servicesDelivered)
                ELSE Num(0))

-----------------------------------------------------------------------------
(* Theme and language preferences: setupDarkMode, applyTheme and            *)
(* LanguageManager, over localStorage.                                      *)

ThemeKey    == "healthcare-theme"
LanguageKey == "healthcare-language"

\* LanguageManager.translations has entries for these languages only.
Translated == {"en", "ar"}

\* localStorage.getItem(key) || fallback
GetItemOr(st, key, fallback) == IF st[key] = "" THEN fallback ELSE st[key]

\* localStorage.setItem(key, value)
SetItem(st, key, value) == [st EXCEPT ![key] = value]

\* The preferences' state as one record.
Prefs == [page |-> page, storage |-> storage]

\* applyTheme(theme): the class light-mode of body
applyTheme(s, theme) == [s EXCEPT !.page.lightMode = (theme = "light")]

\* setupDarkMode up to addEventListener: nothing happens without #theme-toggle
setupDarkMode(s) ==
    IF ~s.page.themeToggle THEN s
    ELSE applyTheme(s, GetItemOr(s.storage, ThemeKey, "dark"))

\* The click listener of #theme-toggle
themeToggleClickUnsaved(s) ==
    LET currentTheme == IF s.page.lightMode THEN "light" ELSE "dark"
        newTheme     == IF currentTheme = "dark" THEN "light" ELSE "dark"
    IN  applyTheme(s, newTheme)
themeToggleClick(s) ==
    LET currentTheme == IF s.page.lightMode THEN "light" ELSE "dark"
        newTheme     == IF currentTheme = "dark" THEN "light" ELSE "dark"
    IN  [applyTheme(s, newTheme) EXCEPT
            !.storage = SetItem(@, ThemeKey, newTheme)]

\* applyLanguage throws at the first [data-translate] element when
\* translations has no entry for currentLanguage.
ApplyLanguageThrows(s) ==
    s.page.translatable /\ s.page.currentLanguage \notin Translated

\* applyLanguage: the texts, then the #current-language label
applyLanguage(s) ==
    IF ApplyLanguageThrows(s) THEN s
    ELSE [s EXCEPT !.page.label =
              IF s.page.currentLanguage = "ar" THEN "Arabic" ELSE "English"]

\* LanguageManager.init
LanguageManagerInit(s) ==
    applyLanguage([s EXCEPT !.page.currentLanguage =
                       GetItemOr(s.storage, LanguageKey, "en")])

\* LanguageManager.switchLanguage(language)
switchLanguage(s, language) ==
    IF language = s.page.currentLanguage THEN s
    ELSE LET s1 == [s EXCEPT !.page.currentLanguage = language,
                             !.storage = SetItem(@, LanguageKey, language)]
         IN  IF ApplyLanguageThrows(s1) THEN s1
             ELSE [applyLanguage(s1) EXCEPT
                      !.page.dir = IF language = "ar" THEN "rtl" ELSE "ltr",
                      !.page.rtlClass = (language = "ar"),
                      !.page.note = IF language = "ar" THEN "changed-ar"
                                    ELSE "changed-en"]

\* A freshly loaded document: no theme class, no dir, LanguageManager as
\* declared.
NewPage(themeToggle, translatable) ==
    [themeToggle |-> themeToggle, translatable |-> translatable,
     lightMode |-> FALSE, currentLanguage |-> "en", label |-> "",
     dir |-> "", rtlClass |-> FALSE, note |-> "", clicks |-> 0]

\* The DOMContentLoaded listener, as far as the preferences go:
\* HealthWorkforceApp.init() runs setupDarkMode, then LanguageManager.init().
onDOMContentLoaded(s) == LanguageManagerInit(setupDarkMode(s))

-----------------------------------------------------------------------------
(* HealthWorkforceApp: loadInitialData and refreshDashboardData            *)

\* The three awaits of loadInitialData, in program order.
Endpoints == <<"dashboard", "training", "projections">>

\* The controller's state as one record, so that a handler is an operator
\* from state to state.
Ctl ==
    [cycles |-> cycles, data |-> data, refreshBtn |-> refreshBtn,
     transportCalls |-> transportCalls, triggers |-> triggers,
     lastDash |-> lastDash]

InFlight(cy) == cy.pc # "done"
AnyInFlight(s) == \E i \in 1..Len(s.cycles) : InFlight(s.cycles[i])

\* Whether a cycle started by trigger trig is in flight.
InFlightFrom(s, trig) ==
    \E i \in 1..Len(s.cycles) : InFlight(s.cycles[i]) /\ s.cycles[i].trigger = trig

\* One invocation of loadInitialData.  pc is the await it is suspended at;
\* issued, results and notes record what it has done, renderThrew whether
\* the rendering of a payload threw.
NewCycle(trig) ==
    [trigger |-> trig, pc |-> "start", issued |-> <<>>, results |-> <<>>,
     notes |-> <<>>, renderThrew |-> FALSE]

\* this.api.get...(): the accessor calls request(), which calls fetch()
\* before its first await; the caller then suspends on the promise.
IssueFetch(s, c, ep) ==
    [s EXCEPT !.cycles[c].issued = Append(@, ep),
              !.cycles[c].pc = ep,
              !.transportCalls = @ + 1]

\* showSuccessNotification / showErrorNotification
Notify(s, c, type, message) ==
    [s EXCEPT !.cycles[c].notes = Append(@, [type |-> type, message |-> message])]

\* loadInitialData from its entry to `await this.api.getExecutiveDashboard()`
loadInitialDataAllAtOnce(s, trig) ==
    LET c  == Len(s.cycles) + 1
        s1 == [s EXCEPT !.cycles = Append(@, NewCycle(trig))]
    IN  IssueFetch(IssueFetch(IssueFetch(s1, c, "projections"), c, "training"),
                   c, "dashboard")
loadInitialData(s, trig) ==
    LET c  == Len(s.cycles) + 1
        s1 == [s EXCEPT !.cycles = Append(@, NewCycle(trig))]
    IN  IssueFetch(s1, c, "dashboard")

\* refreshDashboardData from its entry to `await this.loadInitialData()`:
\* no test of a refresh already in flight.
refreshDashboardDataSingleFlight(s, trig) ==
    LET s1 == [s EXCEPT !.triggers[trig] = @ + 1,
                        !.triggers.reentered =
                            @ \/ (trig = "click" /\ InFlightFrom(s, "click"))]
        s2 == IF s.refreshBtn.present
              THEN [s1 EXCEPT !.refreshBtn.disabled = TRUE] ELSE s1
    IN  IF AnyInFlight(s) THEN s1 ELSE loadInitialData(s2, trig)
refreshDashboardDataTimerExclusive(s, trig) ==
    LET s1 == [s EXCEPT !.triggers[trig] = @ + 1,
                        !.triggers.reentered =
                            @ \/ (trig = "click" /\ InFlightFrom(s, "click"))]
        s2 == IF s.refreshBtn.present
              THEN [s1 EXCEPT !.refreshBtn.disabled = TRUE] ELSE s1
    IN  IF trig = "timer" /\ AnyInFlight(s) THEN s1 ELSE loadInitialData(s2, trig)
refreshDashboardDataBackoff(s, trig) ==
    LET s1 == [s EXCEPT !.triggers[trig] = @ + 1,
                        !.triggers.reentered =
                            @ \/ (trig = "click" /\ InFlightFrom(s, "click"))]
        s2 == IF s.refreshBtn.present
              THEN [s1 EXCEPT !.refreshBtn.disabled = TRUE] ELSE s1
        failed == \E i \in 1..Len(s.cycles) :
                      /\ s.cycles[i].pc = "done"
                      /\ \E k \in 1..Len(s.cycles[i].notes) :
                            s.cycles[i].notes[k].type = "error"
    IN  IF failed THEN s1 ELSE loadInitialData(s2, trig)
refreshDashboardData(s, trig) ==
    LET s1 == [s EXCEPT !.triggers[trig] = @ + 1,
                        !.triggers.reentered =
                            @ \/ (trig = "click" /\ InFlightFrom(s, "click"))]
        s2 == IF s.refreshBtn.present
              THEN [s1 EXCEPT !.refreshBtn.disabled = TRUE] ELSE s1
    IN  loadInitialData(s2, trig)

\* refreshDashboardData after `await this.loadInitialData()` has resolved:
\* the button is enabled again.  The initial load is called from setupAPI,
\* not through refreshDashboardData.
afterLoad(s, c) ==
    IF s.cycles[c].trigger # "init" /\ s.refreshBtn.present
    THEN [s EXCEPT !.refreshBtn.disabled = FALSE]
    ELSE s

\* The catch block of loadInitialData: log, notify, return normally, so the
\* promise resolves and the catch block of refreshDashboardData is not run.
loadFailedRethrow(s, c, error) ==
    LET s1 == Notify([s EXCEPT !.cycles[c].pc = "done"],
                     c, "error", "Failed to load dashboard data")
    IN  IF s.cycles[c].trigger # "init"
        THEN Notify(s1, c, "error", "Failed to refresh data")
        ELSE s1
loadFailedThenSuccess(s, c, error) ==
    afterLoad(Notify(Notify([s EXCEPT !.cycles[c].pc = "done"],
                            c, "error", "Failed to load dashboard data"),
                     c, "success", "Dashboard data loaded successfully"), c)
loadFailedWithErrorText(s, c, error) ==
    afterLoad(Notify([s EXCEPT !.cycles[c].pc = "done"], c, "error",
                     "Failed to load dashboard data: " \o error.message), c)
loadFailed(s, c, error) ==
    afterLoad(Notify([s EXCEPT !.cycles[c].pc = "done"],
                     c, "error", "Failed to load dashboard data"), c)

\* `this.data.dashboard = dashboard`: no test of which cycle is the newest.
storeDashboardIfNewest(s, c, dashboard) ==
    IF c = Len(s.cycles) THEN [s EXCEPT !.data.dashboard = dashboard] ELSE s
storeDashboard(s, c, dashboard) ==
    [s EXCEPT !.data.dashboard = dashboard]

\* The end of the try block: lastUpdated, the success notification, return.
loadSucceededSilent(s, c) ==
    afterLoad([s EXCEPT !.data.lastUpdated = c, !.cycles[c].pc = "done"], c)
loadSucceeded(s, c) ==
    afterLoad(Notify([s EXCEPT !.data.lastUpdated = c, !.cycles[c].pc = "done"],
                     c, "success", "Dashboard data loaded successfully"), c)

\* createProjectionChart can throw inside the try block (a payload whose
\* supply_projections is no array, a canvas Chart.js already uses).
RenderError == [name |-> "TypeError", message |-> "createProjectionChart"]

\* A rejected await inside the single try block transfers control to the
\* catch block: the awaits after it are not reached.
onRejectedContinue(s, c, error) ==
    LET ep == s.cycles[c].pc
    IN  CASE ep = "dashboard"   -> IssueFetch(s, c, "training")
          [] ep = "training"    -> IssueFetch(s, c, "projections")
          [] ep = "projections" -> loadFailed(s, c, error)
onRejected(s, c, error) == loadFailed(s, c, error)

\* The continuation of loadInitialData when the promise it awaits settles
\* with outcome o.
resume(s, c, o, chartThrows) ==
    LET ep == s.cycles[c].pc
        s1 == [s EXCEPT !.cycles[c].results = Append(@, o.stage)]
        s2 == IF ep = "dashboard" /\ o.stage = "resolved" /\ Truthy(o.value)
              THEN [s1 EXCEPT !.lastDash =
                        [cycle |-> c, overtaken |-> s.lastDash.cycle > c]]
              ELSE s1
    IN  IF o.stage = "rejected"
        THEN onRejected(s2, c, o.error)
        ELSE CASE ep = "dashboard" ->
                    IssueFetch(IF Truthy(o.value)
                               THEN storeDashboard(s2, c, o.value) ELSE s2,
                               c, "training")
               [] ep = "training" ->
                    IssueFetch(s2, c, "projections")
               [] ep = "projections" ->
                    IF Truthy(o.value) /\ chartThrows
                    THEN loadFailed([s2 EXCEPT !.cycles[c].renderThrew = TRUE],
                                    c, RenderError)
                    ELSE loadSucceeded(s2, c)

-----------------------------------------------------------------------------
(* HAR pages: js/dashboard.js and js/provider.js.  Both make a WebSocket   *)
(* when the script loads and again 5 seconds after each close.  The        *)
(* dashboard keeps a list of alerts, fed by a 30-second timer and by the   *)
(* socket's 'alert' messages.  The other DOM texts the handlers write      *)
(* (activity, metrics, patient statistics and updates) are not modelled.   *)

Scripts == {"dashboard", "provider"}
ReconnectDelay == 5000
AlertLimit == 5

\* The page as a record
Har == [script |-> script, sockets |-> sockets, timers |-> timers,
        alertsList |-> alertsList, alertCalls |-> alertCalls]

\* Nodes of .alerts-list: a whitespace text node, an item that came with the
\* page, or one of the three alerts addNewAlert draws from.
Text == "#text"
PageItem == "page-item"
Alerts == {"Low Activity Warning", "Goal Achieved", "Heart Rate Alert"}

RECURSIVE Children(_)
\* alertsList.children: the element nodes only
Children(nodes) ==
    IF nodes = <<>> THEN <<>>
    ELSE IF nodes[1] = Text THEN Children(Tail(nodes))
         ELSE <<nodes[1]>> \o Children(Tail(nodes))

\* removeChild(alertsList.lastChild): lastChild is the last node, of any kind
RemoveLastChild(nodes) == SubSeq(nodes, 1, Len(nodes) - 1)

\* The template literal of addNewAlert starts and ends with a line break and
\* indentation, so insertAdjacentHTML('afterbegin', ...) adds a text node,
\* the alert item and another text node in front.
AlertHTML(randomAlert) == <<Text, randomAlert, Text>>

\* addNewAlert of js/dashboard.js; the argument a caller passes is ignored
addNewAlert(s, randomAlert) ==
    LET kept == IF Len(Children(s.alertsList)) >= AlertLimit
                THEN RemoveLastChild(s.alertsList)
                ELSE s.alertsList
    IN  [s EXCEPT !.alertsList = AlertHTML(randomAlert) \o kept,
                  !.alertCalls = @ + 1]

\* initializeWebSocket: new WebSocket(...), then the three handlers are set
initializeWebSocket(s) == [s EXCEPT !.sockets = Append(@, "connecting")]

\* ws.onerror: logs
onerrorReconnects(s, i) ==
    [s EXCEPT !.timers = Append(@, [fn |-> "initializeWebSocket",
                                    delay |-> ReconnectDelay])]
onerror(s, i) == s

\* ws.onclose: logs, then setTimeout(initializeWebSocket, 5000)
onclose(s, i) ==
    [s EXCEPT !.timers = Append(@, [fn |-> "initializeWebSocket",
                                    delay |-> ReconnectDelay])]

\* The values of data.type the handlers are given
MessageTypes == {"activity", "metrics", "alert", "patient_update",
                 "stats_update"}

\* ws.onmessage: the dashboard switches on data.type itself, the provider in
\* handleWebSocketMessage; only the dashboard's 'alert' case writes to the
\* alerts list modelled here.
onmessage(s, i, type, randomAlert) ==
    IF s.script = "dashboard" /\ type = "alert"
    THEN addNewAlert(s, randomAlert)
    ELSE s

RECURSIVE Markup(_, _)
\* .alerts-list as the page's markup gives it: n items, written on one line
\* or with white space around each item
Markup(n, spaced) ==
    IF n = 0 THEN (IF spaced THEN <<Text>> ELSE <<>>)
    ELSE (IF spaced THEN <<Text, PageItem>> ELSE <<PageItem>>)
            \o Markup(n - 1, spaced)

HarIdle ==
    /\ script = "none"
    /\ sockets = <<>>
    /\ timers = <<>>
    /\ alertsList = <<>>
    /\ alertCalls = 0
    /\ harEvent = "none"

-----------------------------------------------------------------------------
(* Dream Analyzer: script.js, the click listener of #analyze-btn.  The     *)
(* listener runs to its await; the 2-second timer then resolves the        *)
(* promise and the rest of the listener runs.                              *)

DreamTexts == {"", "  ", "a dream"}
Trim(text) == IF text = "  " THEN "" ELSE text

Dream == [dreamText |-> dreamText, analyzeBtn |-> analyzeBtn,
          analyses |-> analyses, resultsMarkup |-> resultsMarkup,
          dreamLog |-> dreamLog]

IdleLabel == "Analyze Dream"
BusyLabel == "Analyzing..."

\* The listener up to `await new Promise(...)`
analyzeClickNoDisable(s) ==
    IF Trim(s.dreamText) = ""
    THEN [s EXCEPT !.dreamLog = Append(@, "alert: enter your dream")]
    ELSE [s EXCEPT !.analyzeBtn.label = BusyLabel,
                   !.analyses = @ + 1,
                   !.dreamLog = Append(@, "started")]
analyzeClick(s) ==
    IF Trim(s.dreamText) = ""
    THEN [s EXCEPT !.dreamLog = Append(@, "alert: enter your dream")]
    ELSE [s EXCEPT !.analyzeBtn = [disabled |-> TRUE, label |-> BusyLabel],
                   !.analyses = @ + 1,
                   !.dreamLog = Append(@, "started")]

\* updateResults throws a TypeError when one of the elements it writes to is
\* missing from the page
updateResultsThrows(s) == ~s.resultsMarkup

\* The listener after the await: updateResults, the catch block when it
\* throws, and the finally block
analysisResumes(s) ==
    [s EXCEPT !.analyzeBtn = [disabled |-> FALSE, label |-> IdleLabel],
              !.analyses = @ - 1,
              !.dreamLog = Append(@, IF updateResultsThrows(s)
                                     THEN "alert: failed to analyze"
                                     ELSE "results shown")]

DreamIdle ==
    /\ dreamText = ""
    /\ analyzeBtn = [disabled |-> FALSE, label |-> IdleLabel]
    /\ analyses = 0
    /\ resultsMarkup = FALSE
    /\ dreamLog = <<>>

-----------------------------------------------------------------------------
(* The controller's specification                                          *)

SetCtl(s) ==
    /\ cycles' = s.cycles
    /\ data' = s.data
    /\ refreshBtn' = s.refreshBtn
    /\ transportCalls' = s.transportCalls
    /\ triggers' = s.triggers
    /\ lastDash' = s.lastDash

NoDash == [cycle |-> 0, overtaken |-> FALSE]
NoOp == [op |-> "none", key |-> "", value |-> JsonNull, ttl |-> 0,
         ret |-> JsonNull, afterSet |-> FALSE, had |-> FALSE]

ApiIdle   == reqs = EmptyBag /\ netLog = EmptyBag
CacheIdle == cache = <<>> /\ now = 0 /\ lastOp = NoOp
NoCall    == [fn |-> "none", data |-> [isObject |-> FALSE], ret |-> Return(Undefined)]
CalcIdle  == metrics = NoCall
NoStorage == [k \in {ThemeKey, LanguageKey} |-> ""]
PrefIdle  == page = NewPage(FALSE, FALSE) /\ storage = NoStorage /\ starts = 0
CtlIdle   ==
    /\ cycles = <<>>
    /\ data = [dashboard |-> EmptyObject, lastUpdated |-> 0]
    /\ refreshBtn = [present |-> FALSE, disabled |-> FALSE]
    /\ transportCalls = 0
    /\ triggers = [timer |-> 0, click |-> 0, reentered |-> FALSE]
    /\ lastDash = NoDash

\* HealthWorkforceApp.init(): setupAPI starts the initial load, which runs to
\* its first await; setupRealTimeUpdates then starts the timer and, when the
\* page has a #refresh-data element, attaches the click listener.
Init ==
    /\ \E present \in BOOLEAN :
         LET s0 == [cycles |-> <<>>,
                    data |-> [dashboard |-> EmptyObject, lastUpdated |-> 0],
                    refreshBtn |-> [present |-> present, disabled |-> FALSE],
                    transportCalls |-> 0,
                    triggers |-> [timer |-> 0, click |-> 0, reentered |-> FALSE],
                    lastDash |-> NoDash]
             s1 == loadInitialData(s0, "init")
         IN  /\ cycles = s1.cycles
             /\ data = s1.data
             /\ refreshBtn = s1.refreshBtn
             /\ transportCalls = s1.transportCalls
             /\ triggers = s1.triggers
             /\ lastDash = s1.lastDash
    /\ ApiIdle
    /\ CacheIdle
    /\ CalcIdle
    /\ PrefIdle
    /\ HarIdle
    /\ DreamIdle

\* setInterval(() => this.refreshDashboardData(), CONFIG.REFRESH_INTERVAL)
TimerTick ==
    /\ Len(cycles) < MaxCycles
    /\ SetCtl(refreshDashboardData(Ctl, "timer"))
    /\ UNCHANGED <<apiVars, cacheVars, calcVars, prefVars, harVars, dreamVars>>

\* refreshBtn.addEventListener('click', () => this.refreshDashboardData())
Click ==
    /\ refreshBtn.present
    /\ Len(cycles) < MaxCycles
    /\ SetCtl(refreshDashboardData(Ctl, "click"))
    /\ UNCHANGED <<apiVars, cacheVars, calcVars, prefVars, harVars, dreamVars>>

\* The transport settles the fetch a cycle awaits; request() settles, and
\* loadInitialData runs on to its next await or to its end.
SettleCycle(c) ==
    /\ c \in 1..Len(cycles)
    /\ InFlight(cycles[c])
    /\ \E s \in {resume(Ctl, c, o, chartThrows) :
                      o \in Outcomes({JsonNull, Payload(c)}), chartThrows \in BOOLEAN} :
         SetCtl(s)
    /\ UNCHANGED <<apiVars, cacheVars, calcVars, prefVars, harVars, dreamVars>>

FetchSettles == \E c \in 1..Len(cycles) : SettleCycle(c)

Next == TimerTick \/ Click \/ FetchSettles

Spec == Init /\ [][Next]_vars

\* The controller when the transport settles every fetch it is given: no
\* request hangs for ever.
SpecLive == Spec /\ \A c \in 1..MaxCycles : WF_vars(SettleCycle(c))

-----------------------------------------------------------------------------
(* The APIClient's specification: callers invoke request, directly with     *)
(* options or through an accessor, while the transport settles the calls    *)
(* in any order.                                                            *)

SetApi(s) ==
    /\ reqs' = s.reqs
    /\ netLog' = s.netLog

InitApi == CtlIdle /\ ApiIdle /\ CacheIdle /\ CalcIdle /\ PrefIdle
    /\ HarIdle /\ DreamIdle

\* this.api.request('/custom', options)
CallRequest ==
    /\ BagCardinality(reqs) < MaxRequests
    /\ \E opt \in 1..Len(OptionChoices) : SetApi(request(Api, "/custom", opt))
    /\ UNCHANGED <<ctlVars, cacheVars, calcVars, prefVars, harVars, dreamVars>>

\* this.api.get...(): every accessor builds its endpoint and returns
\* this.request(endpoint).
CallAccessor ==
    /\ BagCardinality(reqs) < MaxRequests
    /\ \E a \in Accessors :
         SetApi(request(Api, AccessorEndpoint(a, RegionArg(a), 1), 1))
    /\ UNCHANGED <<ctlVars, cacheVars, calcVars, prefVars, harVars, dreamVars>>

FetchSettled ==
    /\ \E r \in BagToSet(reqs), t \in FetchOutcomes :
         /\ r.stage = "fetch"
         /\ SetApi(onFetchSettled(Api, r, t))
    /\ UNCHANGED <<ctlVars, cacheVars, calcVars, prefVars, harVars, dreamVars>>

JsonSettled ==
    /\ \E r \in BagToSet(reqs), kind \in BodyKinds :
         /\ r.stage = "json"
         /\ SetApi(onJsonSettled(Api, r, kind, Payload(1)))
    /\ UNCHANGED <<ctlVars, cacheVars, calcVars, prefVars, harVars, dreamVars>>

NextApi == CallRequest \/ CallAccessor \/ FetchSettled \/ JsonSettled

SpecApi == InitApi /\ [][NextApi]_vars

-----------------------------------------------------------------------------
(* The cache's specification: callers set and get entries while the clock   *)
(* advances.                                                                *)

Keys   == {"k1", "k2"}
Values == {JsonNull, 1, 2}
Ttls   == {-1, 0, 1}

InitCache == CtlIdle /\ ApiIdle /\ CacheIdle /\ CalcIdle /\ PrefIdle
    /\ HarIdle /\ DreamIdle

\* analytics.setCacheItem(key, value, ttl)
SetCacheItem ==
    /\ \E key \in Keys, value \in Values, ttl \in Ttls :
         /\ cache' = setCacheItem(cache, now, key, value, ttl)
         /\ lastOp' = [op |-> "set", key |-> key, value |-> value, ttl |-> ttl,
                       ret |-> JsonNull, afterSet |-> FALSE,
                       had |-> key \in DOMAIN cache]
    /\ UNCHANGED <<now, ctlVars, apiVars, calcVars, prefVars, harVars, dreamVars>>

\* analytics.setCacheItem(key, value): ttl takes its default
SetCacheItemDefault ==
    /\ \E key \in Keys, value \in Values :
         /\ cache' = setCacheItem(cache, now, key, value, DefaultTtl)
         /\ lastOp' = [op |-> "set", key |-> key, value |-> value,
                       ttl |-> DefaultTtl, ret |-> JsonNull, afterSet |-> FALSE,
                       had |-> key \in DOMAIN cache]
    /\ UNCHANGED <<now, ctlVars, apiVars, calcVars, prefVars, harVars, dreamVars>>

\* analytics.getCacheItem(key)
GetCacheItem ==
    /\ \E key \in Keys :
         LET g == getCacheItem(cache, now, key)
             fresh == lastOp.op = "set" /\ lastOp.key = key
         IN  /\ cache' = g.cache
             /\ lastOp' = [op |-> "get", key |-> key,
                           value |-> IF fresh THEN lastOp.value ELSE JsonNull,
                           ttl |-> IF fresh THEN lastOp.ttl ELSE 0,
                           ret |-> g.ret, afterSet |-> fresh,
                           had |-> key \in DOMAIN cache]
    /\ UNCHANGED <<now, ctlVars, apiVars, calcVars, prefVars, harVars, dreamVars>>

\* Date.now() advances by a millisecond
Tick ==
    /\ now % DefaultTtl < MaxDrift
    /\ now' = now + 1
    /\ lastOp' = NoOp
    /\ UNCHANGED <<cache, ctlVars, apiVars, calcVars, prefVars, harVars, dreamVars>>

\* Date.now() advances by the default time to live
Wait ==
    /\ now + DefaultTtl <= MaxWaits * DefaultTtl + MaxDrift
    /\ now' = now + DefaultTtl
    /\ lastOp' = NoOp
    /\ UNCHANGED <<cache, ctlVars, apiVars, calcVars, prefVars, harVars, dreamVars>>

NextCache == SetCacheItem \/ SetCacheItemDefault \/ GetCacheItem \/ Tick \/ Wait

SpecCache == InitCache /\ [][NextCache]_vars

-----------------------------------------------------------------------------
(* The metrics' specification: callers apply the three calculations to      *)
(* arguments whose fields are numbers, NaN, null or undefined, or to no     *)
(* object at all.                                                           *)

FieldValues == {Undefined, Null, NaN} \cup {Num(n) : n \in -MaxField..MaxField}

UtilizationData ==
    {[isObject |-> TRUE, filled |-> f, authorized |-> a] :
        f \in FieldValues, a \in FieldValues}
    \cup {[isObject |-> FALSE, filled |-> Undefined, authorized |-> Undefined]}
ProductivityData ==
    {[isObject |-> TRUE, workload |-> w, workforce |-> f] :
        w \in FieldValues, f \in FieldValues}
    \cup {[isObject |-> FALSE, workload |-> Undefined, workforce |-> Undefined]}
CostData ==
    {[isObject |-> TRUE, totalCost |-> c, servicesDelivered |-> n] :
        c \in FieldValues, n \in FieldValues}
    \cup {[isObject |-> FALSE, totalCost |-> Undefined,
           servicesDelivered |-> Undefined]}

InitCalc == CtlIdle /\ ApiIdle /\ CacheIdle /\ CalcIdle /\ PrefIdle
    /\ HarIdle /\ DreamIdle

\* analytics.calculateUtilizationRate(data)
CalculateUtilizationRate ==
    /\ \E d \in UtilizationData :
         metrics' = [fn |-> "calculateUtilizationRate", data |-> d,
                     ret |-> calculateUtilizationRate(d)]
    /\ UNCHANGED <<ctlVars, apiVars, cacheVars, prefVars, harVars, dreamVars>>

\* analytics.calculateProductivityIndex(data)
CalculateProductivityIndex ==
    /\ \E d \in ProductivityData :
         metrics' = [fn |-> "calculateProductivityIndex", data |-> d,
                     ret |-> calculateProductivityIndex(d)]
    /\ UNCHANGED <<ctlVars, apiVars, cacheVars, prefVars, harVars, dreamVars>>

\* analytics.calculateCostEffectiveness(data)
CalculateCostEffectiveness ==
    /\ \E d \in CostData :
         metrics' = [fn |-> "calculateCostEffectiveness", data |-> d,
                     ret |-> calculateCostEffectiveness(d)]
    /\ UNCHANGED <<ctlVars, apiVars, cacheVars, prefVars, harVars, dreamVars>>

NextCalc ==
    \/ CalculateUtilizationRate
    \/ CalculateProductivityIndex
    \/ CalculateCostEffectiveness

SpecCalc == InitCalc /\ [][NextCalc]_vars

-----------------------------------------------------------------------------
(* The preferences' specification: the page is loaded, the user clicks the  *)
(* theme toggle and the language options, and the page is loaded again.     *)

\* The data-lang values of the language options; "fr" has no translations.
LanguageOptions == {"en", "ar", "fr"}

SetPrefs(s) ==
    /\ page' = s.page
    /\ storage' = s.storage

\* The first load of the page, with nothing persisted.
InitPrefs ==
    /\ \E themeToggle \in BOOLEAN, translatable \in BOOLEAN :
         LET s == onDOMContentLoaded([page |-> NewPage(themeToggle, translatable),
                                      storage |-> NoStorage])
         IN  /\ page = s.page
             /\ storage = s.storage
    /\ starts = 1
    /\ CtlIdle /\ ApiIdle /\ CacheIdle /\ CalcIdle /\ HarIdle /\ DreamIdle

\* A click on #theme-toggle
ThemeToggle ==
    /\ page.themeToggle
    /\ page.clicks < MaxClicks
    /\ SetPrefs([themeToggleClick(Prefs) EXCEPT !.page.clicks = @ + 1])
    /\ UNCHANGED <<starts, ctlVars, apiVars, cacheVars, calcVars, harVars, dreamVars>>

\* A click on a [data-lang] option
SwitchLanguage ==
    /\ page.clicks < MaxClicks
    /\ \E language \in LanguageOptions :
         SetPrefs([switchLanguage(Prefs, language) EXCEPT !.page.clicks = @ + 1])
    /\ UNCHANGED <<starts, ctlVars, apiVars, cacheVars, calcVars, harVars, dreamVars>>

\* The page is loaded again: a new document, the same localStorage.
Restart ==
    /\ starts < MaxStarts
    /\ starts' = starts + 1
    /\ SetPrefs(onDOMContentLoaded(
           [page |-> NewPage(page.themeToggle, page.translatable),
            storage |-> storage]))
    /\ UNCHANGED <<ctlVars, apiVars, cacheVars, calcVars, harVars, dreamVars>>

NextPrefs == ThemeToggle \/ SwitchLanguage \/ Restart

SpecPrefs == InitPrefs /\ [][NextPrefs]_vars

-----------------------------------------------------------------------------
(* The HAR page's specification                                            *)

SetHar(s) ==
    /\ script' = s.script
    /\ sockets' = s.sockets
    /\ timers' = s.timers
    /\ alertsList' = s.alertsList
    /\ alertCalls' = s.alertCalls

\* The script has been loaded: initializeWebSocket() at its last line.  The
\* dashboard's list holds what the page's markup gives it.
InitHar ==
    /\ \E sc \in Scripts, n \in 0..AlertLimit, spaced \in BOOLEAN :
         LET s == initializeWebSocket(
                     [script |-> sc, sockets |-> <<>>, timers |-> <<>>,
                      alertsList |-> IF sc = "dashboard"
                                     THEN Markup(n, spaced) ELSE <<>>,
                      alertCalls |-> 0])
         IN  /\ script = s.script
             /\ sockets = s.sockets
             /\ timers = s.timers
             /\ alertsList = s.alertsList
             /\ alertCalls = s.alertCalls
    /\ harEvent = "load"
    /\ CtlIdle /\ ApiIdle /\ CacheIdle /\ CalcIdle /\ PrefIdle /\ DreamIdle

Live(i) == sockets[i] \in {"connecting", "open"}

\* The connection is established; the scripts set no onopen handler
SocketOpens ==
    /\ \E i \in 1..Len(sockets) :
         /\ sockets[i] = "connecting"
         /\ sockets' = [sockets EXCEPT ![i] = "open"]
    /\ harEvent' = "open"
    /\ UNCHANGED <<script, timers, alertsList, alertCalls>>
    /\ UNCHANGED <<ctlVars, apiVars, cacheVars, calcVars, prefVars, dreamVars>>

\* An error event on a socket: ws.onerror
SocketError ==
    /\ \E i \in 1..Len(sockets) :
         /\ Live(i)
         /\ SetHar(onerror(Har, i))
    /\ harEvent' = "error"
    /\ UNCHANGED <<ctlVars, apiVars, cacheVars, calcVars, prefVars, dreamVars>>

\* The close event of a socket, fired once when it reaches CLOSED: ws.onclose
SocketCloses ==
    /\ \E i \in 1..Len(sockets) :
         /\ Live(i)
         /\ SetHar(onclose([Har EXCEPT !.sockets[i] = "closed"], i))
    /\ harEvent' = "close"
    /\ UNCHANGED <<ctlVars, apiVars, cacheVars, calcVars, prefVars, dreamVars>>

\* A message arrives on an open socket: ws.onmessage
SocketMessage ==
    /\ alertCalls < MaxAlertCalls
    /\ \E i \in 1..Len(sockets), type \in MessageTypes, randomAlert \in Alerts :
         /\ sockets[i] = "open"
         /\ SetHar(onmessage(Har, i, type, randomAlert))
    /\ harEvent' = "message"
    /\ UNCHANGED <<ctlVars, apiVars, cacheVars, calcVars, prefVars, dreamVars>>

\* A reconnect timer fires: initializeWebSocket
ReconnectFires ==
    /\ timers # <<>>
    /\ Len(sockets) < MaxConnects
    /\ SetHar(initializeWebSocket([Har EXCEPT !.timers = Tail(@)]))
    /\ harEvent' = "reconnect"
    /\ UNCHANGED <<ctlVars, apiVars, cacheVars, calcVars, prefVars, dreamVars>>

\* setInterval(addNewAlert, 30000) of the dashboard
AlertTimer ==
    /\ script = "dashboard"
    /\ alertCalls < MaxAlertCalls
    /\ \E randomAlert \in Alerts : SetHar(addNewAlert(Har, randomAlert))
    /\ harEvent' = "alert timer"
    /\ UNCHANGED <<ctlVars, apiVars, cacheVars, calcVars, prefVars, dreamVars>>

NextHar ==
    \/ SocketOpens \/ SocketError \/ SocketCloses \/ SocketMessage
    \/ ReconnectFires \/ AlertTimer

SpecHar == InitHar /\ [][NextHar]_vars

\* A timer that has been set fires once its delay has passed.
SpecHarLive == SpecHar /\ WF_vars(ReconnectFires)

-----------------------------------------------------------------------------
(* The Dream Analyzer's specification                                      *)

SetDream(s) ==
    /\ dreamText' = s.dreamText
    /\ analyzeBtn' = s.analyzeBtn
    /\ analyses' = s.analyses
    /\ resultsMarkup' = s.resultsMarkup
    /\ dreamLog' = s.dreamLog

InitDream ==
    /\ dreamText = ""
    /\ analyzeBtn = [disabled |-> FALSE, label |-> IdleLabel]
    /\ analyses = 0
    /\ resultsMarkup \in BOOLEAN
    /\ dreamLog = <<>>
    /\ CtlIdle /\ ApiIdle /\ CacheIdle /\ CalcIdle /\ PrefIdle /\ HarIdle

\* The user types, or speech recognition writes a transcript
EditDream ==
    /\ \E text \in DreamTexts \ {dreamText} : dreamText' = text
    /\ UNCHANGED <<analyzeBtn, analyses, resultsMarkup, dreamLog>>
    /\ UNCHANGED <<ctlVars, apiVars, cacheVars, calcVars, prefVars, harVars>>

\* A click on #analyze-btn; a disabled button receives no click events
AnalyzeClick ==
    /\ ~analyzeBtn.disabled
    /\ Len(SelectSeq(dreamLog, LAMBDA e : e \in {"started", "alert: enter your dream"}))
          < MaxAnalyzeClicks
    /\ SetDream(analyzeClick(Dream))
    /\ UNCHANGED <<ctlVars, apiVars, cacheVars, calcVars, prefVars, harVars>>

\* The 2-second timer resolves the awaited promise
AnalysisResumes ==
    /\ analyses > 0
    /\ SetDream(analysisResumes(Dream))
    /\ UNCHANGED <<ctlVars, apiVars, cacheVars, calcVars, prefVars, harVars>>

NextDream == EditDream \/ AnalyzeClick \/ AnalysisResumes

SpecDream == InitDream /\ [][NextDream]_vars

-----------------------------------------------------------------------------
(* Claims about the dashboard controller (specification Spec)              *)

Cycles == 1..Len(cycles)
Done(c) == cycles[c].pc = "done"
AllResolved(c) == cycles[c].results = <<"resolved", "resolved", "resolved">>
Rejected(c) == \E k \in 1..Len(cycles[c].results) : cycles[c].results[k] = "rejected"
NotesOf(c, type) ==
    Cardinality({k \in 1..Len(cycles[c].notes) : cycles[c].notes[k].type = type})

RECURSIVE CallsFrom(_, _)
\* The fetch() calls issued by the first n cycles among those in set cs.
CallsFrom(n, cs) ==
    IF n = 0 THEN 0
    ELSE CallsFrom(n - 1, cs) + (IF n \in cs THEN Len(cycles[n].issued) ELSE 0)

ClickCycles == {c \in Cycles : cycles[c].trigger = "click"}

\* C1: with overlapping refresh cycles the snapshot is last-settled-wins: in
\* every state data.dashboard is the payload of the dashboard fetch that was
\* the last to resolve with a payload, whichever cycle was started last; so
\* when cycle A is started before cycle B and A's dashboard fetch resolves
\* after B's, the snapshot ends as A's payload.
C1_LastSettledWins ==
    data.dashboard =
        (IF lastDash.cycle = 0 THEN EmptyObject ELSE Payload(lastDash.cycle))

\* C1 witness: an earlier-started cycle's dashboard fetch has resolved after a
\* later-started cycle's, every cycle has completed, and the snapshot holds
\* the earlier cycle's payload.
C1_Witness ==
    /\ lastDash.overtaken
    /\ lastDash.cycle < Len(cycles)
    /\ \A c \in Cycles : Done(c)
    /\ data.dashboard = Payload(lastDash.cycle)

C3_AllThreeAttempted ==
    \A c \in Cycles : Done(c) => cycles[c].issued = Endpoints

\* C3 amended: the first fetch of a cycle that fails ends the cycle: a
\* rejected fetch is the last fetch its cycle issues, and the fetches after
\* it in program order are never issued.
C3_FailureEndsCycle ==
    \A c \in Cycles : \A k \in 1..Len(cycles[c].results) :
        cycles[c].results[k] = "rejected"
            => /\ Done(c)
               /\ cycles[c].issued = SubSeq(Endpoints, 1, k)

\* C3 witness: a cycle whose training fetch failed and which never issued
\* the projections fetch.
C3_Witness ==
    \E c \in Cycles :
        /\ cycles[c].results = <<"resolved", "rejected">>
        /\ cycles[c].issued = <<"dashboard", "training">>
        /\ Done(c)

\* C4: a cycle in which a fetch has failed emits the failure notification
\* exactly once, also when it runs under refreshDashboardData with its own
\* catch block; no cycle emits it twice, and none before it completes.
C4_OneFailureNotification ==
    \A c \in Cycles :
        /\ NotesOf(c, "error") <= 1
        /\ Rejected(c) => NotesOf(c, "error") = 1
        /\ ~Done(c) => cycles[c].notes = <<>>

\* C4 witness: a cycle started through refreshDashboardData has failed and
\* has emitted one failure notification.
C4_Witness ==
    \E c \in Cycles :
        /\ cycles[c].trigger # "init"
        /\ Rejected(c)
        /\ Done(c)
        /\ NotesOf(c, "error") = 1

\* C5: a cycle issues its fetches in the order dashboard, training,
\* projections, and issues one only when every fetch before it has settled:
\* at most one fetch of a cycle is in flight.
C5_SequentialFetches ==
    \A c \in Cycles :
        /\ Len(cycles[c].issued) <= 3
        /\ cycles[c].issued = SubSeq(Endpoints, 1, Len(cycles[c].issued))
        /\ Len(cycles[c].issued) - Len(cycles[c].results) \in {0, 1}
        /\ Len(cycles[c].issued) - Len(cycles[c].results) = 1 <=> ~Done(c)

\* C5 witness: a cycle awaits its third fetch with the first two settled,
\* while another cycle is in flight too.
C5_Witness ==
    \E c, d \in Cycles :
        /\ c # d
        /\ cycles[c].issued = Endpoints
        /\ Len(cycles[c].results) = 2
        /\ ~Done(d)

\* The ways a fetch can fail, and the texts of the errors raised.
Rejections == {o \in Outcomes({JsonNull}) : o.stage = "rejected"}
ErrorTexts == {o.error.message : o \in Rejections}

\* The notifications of cycle c once the fetch it awaits has failed with o.
NotesAfter(c, o) == resume(Ctl, c, o, FALSE).cycles[c].notes

\* C17: the failure notification carries no error text: whenever a cycle
\* awaits a fetch, every error the fetch can fail with (transport, status
\* 404 or 500 with its status text, parse) leads to the same notifications,
\* one with the fixed text 'Failed to load dashboard data'; and no failure
\* notification shown so far has the text of an error.
C17_NotificationIndependentOfError ==
    /\ \A c \in Cycles :
         InFlight(cycles[c])
            => {NotesAfter(c, o) : o \in Rejections} =
                  {<<[type |-> "error", message |-> "Failed to load dashboard data"]>>}
    /\ \A c \in Cycles : \A k \in 1..Len(cycles[c].notes) :
         cycles[c].notes[k].type = "error"
            => /\ cycles[c].notes[k].message = "Failed to load dashboard data"
               /\ cycles[c].notes[k].message \notin ErrorTexts

\* C17 witness: one cycle has failed at its dashboard fetch and another at
\* its projections fetch, both show the same failure notification, and a
\* third cycle is awaiting a fetch.
C17_Witness ==
    \E a, b, c \in Cycles :
        /\ Done(a) /\ cycles[a].results = <<"rejected">>
        /\ Done(b) /\ cycles[b].results = <<"resolved", "resolved", "rejected">>
        /\ cycles[a].notes = cycles[b].notes
        /\ Len(cycles[a].notes) = 1
        /\ InFlight(cycles[c])

\* C19 as stated: a cycle that ended in failure has left data.dashboard and
\* data.lastUpdated as they were when it started.  Payload(c) is stored by
\* cycle c only and lastUpdated is set to c by cycle c only, so either of
\* them in data shows that cycle c has changed data.
C19_FailedCycleKeepsData ==
    \A c \in Cycles :
        (Done(c) /\ NotesOf(c, "error") >= 1)
            => /\ data.dashboard # Payload(c)
               /\ data.lastUpdated # c

\* C20 as stated: a cycle emits the success notification if and only if its
\* three fetches all resolved, and never both a success and a failure
\* notification.
C20_SuccessIffAllResolved ==
    \A c \in Cycles :
        /\ Done(c) => (NotesOf(c, "success") >= 1 <=> AllResolved(c))
        /\ ~(NotesOf(c, "success") >= 1 /\ NotesOf(c, "error") >= 1)

\* C20 amended: a cycle emits the success notification, once, if and only if
\* its three fetches all resolved and no rendering of a payload threw; a
\* completed cycle emits exactly one notification, never both a success and
\* a failure.
C20_SuccessIffAllResolvedAndRendered ==
    \A c \in Cycles :
        /\ NotesOf(c, "success") =
              (IF Done(c) /\ AllResolved(c) /\ ~cycles[c].renderThrew
               THEN 1 ELSE 0)
        /\ Done(c) => NotesOf(c, "success") + NotesOf(c, "error") = 1
        /\ Done(c) => Len(cycles[c].notes) = 1

\* C20 witness: the three fetches of a cycle resolved, the chart rendering
\* threw, and the cycle has emitted the failure notification and no success.
C20_Witness ==
    \E c \in Cycles :
        /\ Done(c)
        /\ AllResolved(c)
        /\ cycles[c].renderThrew
        /\ NotesOf(c, "error") = 1
        /\ NotesOf(c, "success") = 0

TimerCycles == {c \in Cycles : cycles[c].trigger = "timer"}
Failed(c) == Done(c) /\ NotesOf(c, "error") >= 1

\* C21: refresh cycles are not mutually exclusive: every timer tick and every
\* click has started a cycle of its own at once, whatever was in flight, so
\* there is one cycle per trigger (none dropped) and every cycle has issued
\* its dashboard fetch (none queued behind a running cycle).
C21_NoMutualExclusion ==
    /\ Cardinality(TimerCycles) = triggers.timer
    /\ Cardinality(ClickCycles) + Cardinality(TimerCycles) + 1 = Len(cycles)
    /\ \A c \in Cycles :
         /\ cycles[c].issued # <<>>
         /\ cycles[c].issued[1] = "dashboard"

\* C21 witness: while the initial load hangs on its first fetch, two timer
\* ticks have each started a cycle, and all three cycles are in flight.
C21_Witness ==
    /\ triggers.timer = 2
    /\ Len(cycles) = 3
    /\ \A c \in Cycles : InFlight(cycles[c])
    /\ cycles[1].pc = "dashboard"

\* C22: a trigger that arrives after a cycle has failed starts a fresh cycle
\* in the same step, which issues the dashboard fetch at once, however many
\* cycles have failed before; the earlier cycles are left as they are.
C22_TriggerAfterFailureStartsCycle ==
    [][ ((\E c \in Cycles : Failed(c)) /\ triggers' # triggers)
            => /\ Len(cycles') = Len(cycles) + 1
               /\ cycles'[Len(cycles')].issued = <<"dashboard">>
               /\ cycles'[Len(cycles')].pc = "dashboard"
               /\ transportCalls' = transportCalls + 1
               /\ \A c \in Cycles : cycles'[c] = cycles[c] ]_vars

\* C22 witness: the initial load and the first refresh have both failed, and
\* a trigger that came after the failure of the first refresh (the button,
\* enabled again by that failure, is disabled) has a cycle in flight on its
\* dashboard fetch.
C22_Witness ==
    /\ Len(cycles) = 3
    /\ Failed(1) /\ Failed(2)
    /\ cycles[3].pc = "dashboard"
    /\ cycles[3].issued = <<"dashboard">>
    /\ refreshBtn.present /\ refreshBtn.disabled

\* C23: when every fetch a cycle issues settles, the cycle completes and has
\* emitted exactly one notification; a cycle changes only when the fetch it
\* awaits settles, so a cycle whose fetch never settles stays as it is, not
\* completed and with no notification.
C23_CompletesWhenFetchesSettle ==
    /\ \A c \in 1..MaxCycles :
         (c <= Len(cycles)) ~> (c <= Len(cycles) /\ Done(c))
    /\ [][ \A c \in Cycles :
             cycles'[c] # cycles[c]
                => /\ InFlight(cycles[c])
                   /\ Len(cycles'[c].results) = Len(cycles[c].results) + 1 ]_vars
    /\ [](\A c \in Cycles :
             Len(cycles[c].notes) = (IF Done(c) THEN 1 ELSE 0))

\* C23 witness: a cycle started later has completed with its one
\* notification while an earlier cycle still awaits its first fetch and has
\* emitted nothing.
C23_Witness ==
    \E a, b \in Cycles :
        /\ b < a
        /\ Done(a) /\ Len(cycles[a].notes) = 1
        /\ cycles[b].pc = "dashboard" /\ cycles[b].results = <<>>
        /\ cycles[b].notes = <<>>

\* C26 as stated: the refresh button is disabled exactly while some cycle
\* started through refreshDashboardData (by the timer or by a click) has not
\* completed.
C26_ButtonTracksInFlight ==
    refreshBtn.present
        => (refreshBtn.disabled
              <=> \E c \in Cycles : /\ cycles[c].trigger # "init"
                                    /\ InFlight(cycles[c]))

-----------------------------------------------------------------------------
(* Claims about the APIClient (specification SpecApi)                      *)

Requests == BagToSet(reqs)
Calls    == BagToSet(netLog)

\* The number of request invocations for endpoint e, and of fetch calls to url u.
RequestsFor(e) ==
    BagCardinality([r \in {x \in Requests : x.endpoint = e} |-> reqs[r]])
CallsTo(u) ==
    BagCardinality([c \in {x \in Calls : x.url = u} |-> netLog[c]])

\* C6 as stated: a request answered with status 500 rejects with a
\* RequestError that has a status field equal to 500.
C6_RequestErrorWithStatus ==
    \A r \in Requests :
        (r.stage = "rejected" /\ r.status = 500)
            => /\ r.error.name = "RequestError"
               /\ "status" \in DOMAIN r.error
               /\ r.error.status = 500

\* C6 amended: a request answered with a non-2xx status rejects with a plain
\* Error that has no status field; the numeric status and the status text
\* are carried in its message only, "HTTP 500: Internal Server Error" for a
\* 500.
C6_HttpErrorMessage ==
    \A r \in Requests :
        (r.status # 0 /\ ~ResponseOk(r.status))
            => /\ r.stage = "rejected"
               /\ r.error.name = "Error"
               /\ "status" \notin DOMAIN r.error
               /\ r.status = 500 => r.error.message = "HTTP 500: Internal Server Error"
               /\ r.status = 404 => r.error.message = "HTTP 404: Not Found"

\* C6 witness: a request has been answered with status 500 and has rejected.
C6_Witness ==
    \E r \in Requests : r.status = 500 /\ r.stage = "rejected"

\* C7 as stated: a network failure reaches the caller as a TransportError, a
\* non-2xx status as a RequestError, a malformed body as a DecodeError.
C7_NamedErrorKinds ==
    \A r \in Requests :
        r.stage = "rejected"
            => r.error.name = (CASE r.cause = "network" -> "TransportError"
                                 [] r.cause = "status"  -> "RequestError"
                                 [] r.cause = "parse"   -> "DecodeError")

\* C7 amended: the three failure classes reach the caller unwrapped, as the
\* TypeError of fetch for a network failure, a plain Error for a non-2xx
\* status and the SyntaxError of response.json() for a malformed body; no
\* two classes produce an error of the same name.
C7_DistinctErrorNames ==
    /\ \A r \in Requests :
         r.stage = "rejected"
            => r.error.name = (CASE r.cause = "network" -> "TypeError"
                                 [] r.cause = "status"  -> "Error"
                                 [] r.cause = "parse"   -> "SyntaxError")
    /\ \A r, q \in Requests :
         (r.stage = "rejected" /\ q.stage = "rejected" /\ r.cause # q.cause)
            => r.error.name # q.error.name

\* C7 witness: two requests have failed, one on a non-2xx status and one on a
\* malformed body.
C7_Witness ==
    \E r, q \in Requests :
        /\ r.stage = "rejected" /\ r.cause = "status"
        /\ q.stage = "rejected" /\ q.cause = "parse"

C9_HeadersMerged ==
    \A c \in Calls :
        LET o == OptionChoices[c.options]
        IN  ("headers" \in o.keys /\ "Content-Type" \notin HeaderNames(o.headers))
                => /\ DefaultHeaders \subseteq c.headers
                   /\ o.headers \subseteq c.headers

-----------------------------------------------------------------------------
(* Claims about the cache (specification SpecCache)                        *)

\* C10: getCacheItem(k) called right after setCacheItem(k, v, ttl) with
\* ttl > 0, at the same clock reading, returns v, whatever the cache held
\* before.
C10_SetThenGet ==
    (lastOp.op = "get" /\ lastOp.afterSet /\ lastOp.ttl > 0)
        => lastOp.ret = lastOp.value

\* C10 witness: a get has followed a set of a truthy value for a key that
\* held another entry before, and has returned that value.
C10_Witness ==
    /\ lastOp.op = "get"
    /\ lastOp.afterSet
    /\ lastOp.ttl = 1
    /\ lastOp.value = 2
    /\ lastOp.ret = 2
    /\ now > 0

\* C11: getCacheItem(k) called when the clock has passed the expiry of the
\* entry of k returns null and deletes the entry; a lookup of a key that has
\* no entry returns null and adds none, and only setCacheItem(k, ...) gives k
\* an entry again.
C11_ExpiredLookupRemoves ==
    [][ /\ lastOp'.op = "get" =>
             LET k == lastOp'.key
             IN  /\ (k \in DOMAIN cache /\ now > cache[k].expiry)
                        => (lastOp'.ret = JsonNull /\ k \notin DOMAIN cache')
                 /\ k \notin DOMAIN cache
                        => (lastOp'.ret = JsonNull /\ k \notin DOMAIN cache')
        /\ \A k \in Keys :
             (k \notin DOMAIN cache /\ k \in DOMAIN cache')
                 => (lastOp'.op = "set" /\ lastOp'.key = k) ]_vars

\* C11 witness: after the clock advanced, a lookup has found an entry past
\* its expiry, returned null and left the key without an entry.
C11_Witness ==
    /\ lastOp.op = "get"
    /\ ~lastOp.afterSet
    /\ lastOp.had
    /\ lastOp.key \notin DOMAIN cache
    /\ lastOp.ret = JsonNull
    /\ now > 0

\* C12 as stated: getCacheItem(k) returns a stored value only if the clock
\* is strictly before the entry's expiry.
C12_VisibleStrictlyBeforeExpiry ==
    (lastOp.op = "get" /\ lastOp.ret # JsonNull)
        => /\ lastOp.key \in DOMAIN cache
           /\ now < cache[lastOp.key].expiry

\* C12 amended: getCacheItem(k) returns a stored value only if the clock has
\* not passed the entry's expiry, now <= expiry, the instant of expiry
\* included; the expiry is the clock reading of the last setCacheItem plus
\* its ttl.
C12_VisibleUntilExpiry ==
    /\ (lastOp.op = "get" /\ lastOp.ret # JsonNull)
          => /\ lastOp.key \in DOMAIN cache
             /\ lastOp.ret = cache[lastOp.key].value
             /\ now <= cache[lastOp.key].expiry
    /\ lastOp.op = "set"
          => /\ lastOp.key \in DOMAIN cache
             /\ cache[lastOp.key].expiry = now + lastOp.ttl

\* C12 witness: a lookup made at the very instant of expiry, after the clock
\* advanced, has returned the stored value.
C12_Witness ==
    /\ lastOp.op = "get"
    /\ lastOp.ret = 1
    /\ lastOp.key \in DOMAIN cache
    /\ cache[lastOp.key].expiry = now
    /\ ~lastOp.afterSet
    /\ now > 0

\* C13: getCacheItem(key) returns the stored value and leaves the store as it
\* is when key has an entry and now <= expiry; in every other case it
\* returns null, no entry of key remains, and the other entries are untouched.
C13_GetCacheItemContract ==
    [][ lastOp'.op = "get" =>
          LET k == lastOp'.key
          IN  IF k \in DOMAIN cache /\ now <= cache[k].expiry
              THEN /\ lastOp'.ret = cache[k].value
                   /\ cache' = cache
              ELSE /\ lastOp'.ret = JsonNull
                   /\ DOMAIN cache' = DOMAIN cache \ {k}
                   /\ \A j \in DOMAIN cache' : cache'[j] = cache[j] ]_vars

\* C13 witness: a lookup of an entry set with ttl 0 has returned its value at
\* the instant of expiry and the entry is still stored, while the other key
\* holds an entry too.
C13_Witness ==
    /\ lastOp.op = "get"
    /\ lastOp.afterSet
    /\ lastOp.ttl = 0
    /\ lastOp.ret = 2
    /\ lastOp.key \in DOMAIN cache
    /\ cache[lastOp.key] = [value |-> 2, expiry |-> now]
    /\ DOMAIN cache = Keys

\* C14: after setCacheItem(key, value, ttl) the entry of key is exactly
\* {value, expiry: now + ttl}, whether key had an entry or not, expired or
\* not; ttl is the argument, or 300000 when it is omitted.
C14_SetOverwrites ==
    lastOp.op = "set"
        => /\ lastOp.key \in DOMAIN cache
           /\ cache[lastOp.key] = [value |-> lastOp.value,
                                   expiry |-> now + lastOp.ttl]
           /\ lastOp.ttl \in Ttls \cup {300000}

\* C14 witness: a set with the default ttl has replaced an earlier entry of
\* the key, and the entry now expires 300000 ms from now.
C14_Witness ==
    /\ lastOp.op = "set"
    /\ lastOp.had
    /\ lastOp.value = 2
    /\ lastOp.ttl = 300000
    /\ cache[lastOp.key].expiry = now + 300000
    /\ now > 0

\* C24: lookup is the only eviction: an entry of key k leaves the store only
\* in a step that is getCacheItem(k) with the clock past the entry's expiry;
\* setCacheItem only ever adds its own key, whatever the store holds, and the
\* passage of time leaves the store as it is, so an expired entry that is not
\* looked up stays stored.
C24_LookupIsOnlyEviction ==
    [][ /\ \A k \in DOMAIN cache :
             k \notin DOMAIN cache'
                => /\ lastOp'.op = "get" /\ lastOp'.key = k
                   /\ now > cache[k].expiry
        /\ lastOp'.op = "set"
             => DOMAIN cache' = DOMAIN cache \cup {lastOp'.key}
        /\ now' # now => cache' = cache ]_vars

\* C24 witness: every key is stored, one entry expired more than a default
\* time to live ago and is still there after a set of another key.
C24_Witness ==
    /\ lastOp.op = "set"
    /\ DOMAIN cache = Keys
    /\ \E k \in Keys \ {lastOp.key} : now > cache[k].expiry + DefaultTtl

\* C25: keys are isolated: setCacheItem(k, ...) and getCacheItem(k) leave the
\* presence, value and expiry of every other key as they were, and
\* getCacheItem(k) on an entry that has not expired leaves the whole store
\* as it was, the expiry of k included.
C25_KeysIsolated ==
    [][ lastOp'.op \in {"set", "get"} =>
          /\ \A j \in Keys \ {lastOp'.key} :
               /\ j \in DOMAIN cache <=> j \in DOMAIN cache'
               /\ j \in DOMAIN cache => cache'[j] = cache[j]
          /\ ( /\ lastOp'.op = "get"
               /\ lastOp'.key \in DOMAIN cache
               /\ now <= cache[lastOp'.key].expiry )
                => /\ lastOp'.key \in DOMAIN cache'
                   /\ cache'[lastOp'.key].expiry = cache[lastOp'.key].expiry
                   /\ cache' = cache ]_vars

\* C25 witness: a lookup has returned the value of a live entry whose expiry
\* is still the one given when it was set, a default time to live earlier,
\* while the other key holds an expired entry with another value.
C25_Witness ==
    /\ lastOp.op = "get"
    /\ ~lastOp.afterSet
    /\ lastOp.ret = 1
    /\ lastOp.key \in DOMAIN cache
    /\ cache[lastOp.key] = [value |-> 1, expiry |-> now]
    /\ now >= DefaultTtl
    /\ \E j \in DOMAIN cache \ {lastOp.key} :
         cache[j].value = 2 /\ now > cache[j].expiry

-----------------------------------------------------------------------------
(* Claims about the metrics (specification SpecCalc)                       *)

\* C15: for an object argument, calculateUtilizationRate returns
\* 100 * filled / authorized when authorized > 0, and exactly 0 when
\* authorized is 0, negative or undefined (or null or NaN), whatever filled
\* is; it does not throw.
C15_UtilizationRate ==
    (metrics.fn = "calculateUtilizationRate" /\ metrics.data.isObject)
        => LET filled == metrics.data.filled
               authorized == metrics.data.authorized
           IN  /\ ~metrics.ret.threw
               /\ GreaterThanZero(authorized)
                     => metrics.ret.value =
                            Divide(Multiply(Num(100), filled), authorized)
               /\ ~GreaterThanZero(authorized)
                     => metrics.ret.value = Num(0)

\* C15 witness: the rate of 2 filled out of 3 authorized has been computed
\* as 200/3.
C15_Witness ==
    /\ metrics.fn = "calculateUtilizationRate"
    /\ metrics.data.isObject
    /\ metrics.data.filled = Num(2)
    /\ metrics.data.authorized = Num(3)
    /\ metrics.ret = Return([t |-> "number", num |-> 200, den |-> 3])

\* C16 as stated: for an object argument, each of calculateProductivityIndex
\* and calculateCostEffectiveness returns the ratio whenever its denominator
\* is truthy, and 0 when the denominator is zero or falsy.
C16_RatioOnTruthyDenominator ==
    /\ (metrics.fn = "calculateProductivityIndex" /\ metrics.data.isObject)
          => metrics.ret.value =
                IF TruthyNumber(metrics.data.workforce)
                THEN Divide(metrics.data.workload, metrics.data.workforce)
                ELSE Num(0)
    /\ (metrics.fn = "calculateCostEffectiveness" /\ metrics.data.isObject)
          => metrics.ret.value =
                IF TruthyNumber(metrics.data.servicesDelivered)
                THEN Divide(metrics.data.totalCost, metrics.data.servicesDelivered)
                ELSE Num(0)

\* C16 amended: for an object argument, each of the two returns the ratio
\* when its denominator is greater than 0 and returns 0 for every other
\* denominator, the negative ones included; neither throws.
C16_RatioOnPositiveDenominator ==
    /\ (metrics.fn = "calculateProductivityIndex" /\ metrics.data.isObject)
          => /\ ~metrics.ret.threw
             /\ metrics.ret.value =
                  IF GreaterThanZero(metrics.data.workforce)
                  THEN Divide(metrics.data.workload, metrics.data.workforce)
                  ELSE Num(0)
    /\ (metrics.fn = "calculateCostEffectiveness" /\ metrics.data.isObject)
          => /\ ~metrics.ret.threw
             /\ metrics.ret.value =
                  IF GreaterThanZero(metrics.data.servicesDelivered)
                  THEN Divide(metrics.data.totalCost, metrics.data.servicesDelivered)
                  ELSE Num(0)

\* C16 witness: the productivity index of workload 3 over a workforce of -2
\* has been computed as 0.
C16_Witness ==
    /\ metrics.fn = "calculateProductivityIndex"
    /\ metrics.data.isObject
    /\ metrics.data.workload = Num(3)
    /\ metrics.data.workforce = Num(-2)
    /\ metrics.ret = Return(Num(0))

-----------------------------------------------------------------------------
(* Claims about the preferences (specification SpecPrefs)                  *)

ActiveTheme == IF page.lightMode THEN "light" ELSE "dark"

\* C18: the active theme and the active language each agree with
\* localStorage in every state, after page loads, theme toggles and language
\* switches alike: the applied theme is the persisted 'healthcare-theme', or
\* 'dark' when none is persisted, and currentLanguage is the persisted
\* 'healthcare-language', or 'en' when none is persisted.
C18_PreferencesMatchStore ==
    /\ ActiveTheme = GetItemOr(storage, ThemeKey, "dark")
    /\ page.currentLanguage = GetItemOr(storage, LanguageKey, "en")

\* C18 witness: the page has just been loaded again and has re-applied a
\* persisted light theme and a persisted Arabic.
C18_Witness ==
    /\ starts = 2
    /\ page.clicks = 0
    /\ storage[ThemeKey] = "light" /\ page.lightMode
    /\ storage[LanguageKey] = "ar" /\ page.currentLanguage = "ar"

\* C27 as stated, for the two languages that have translations: in every
\* state, directly after a page load included, the document has dir 'rtl'
\* and body has the class 'rtl' exactly when currentLanguage is 'ar'.
C27_DirectionMatchesLanguage ==
    page.currentLanguage \in Translated
        => /\ page.dir = "rtl" <=> page.currentLanguage = "ar"
           /\ page.rtlClass <=> page.currentLanguage = "ar"

-----------------------------------------------------------------------------
(* Claims about the HAR pages (specifications SpecHar, SpecHarLive)        *)

LiveSockets == {i \in 1..Len(sockets) : Live(i)}
Closing(i) == sockets[i] # "closed" /\ sockets'[i] = "closed"

\* C28: on either HAR page every close of a WebSocket sets exactly one timer
\* for initializeWebSocket with a delay of 5000 ms, whatever the number of
\* closes before it; such a timer is set by a close only, an error event
\* sets none and changes no socket; a timer that fires makes one new socket;
\* at most one socket is connecting or open and at most one timer is pending
\* at any time; and when timers fire, a closed socket is eventually followed
\* by the next call of initializeWebSocket.
C28_ReconnectAfterEveryClose ==
    /\ [](Cardinality(LiveSockets) <= 1 /\ Len(timers) <= 1)
    /\ [][ /\ \A i \in 1..Len(sockets) :
                Closing(i)
                   => /\ timers' = Append(timers, [fn |-> "initializeWebSocket",
                                                   delay |-> 5000])
                      /\ Len(sockets') = Len(sockets)
           /\ harEvent' = "error" => (timers' = timers /\ sockets' = sockets)
           /\ Len(timers') > Len(timers)
                => \E i \in 1..Len(sockets) : Closing(i)
           /\ Len(timers') < Len(timers)
                => /\ timers' = Tail(timers)
                   /\ sockets' = Append(sockets, "connecting") ]_vars
    /\ \A i \in 1..(MaxConnects - 1) :
         (i <= Len(sockets) /\ sockets[i] = "closed") ~> (Len(sockets) > i)

\* C28 witness: two sockets have closed and each was followed by a new one;
\* the third has had an error event without a close, and no timer is pending.
C28_Witness ==
    /\ sockets = <<"closed", "closed", "connecting">>
    /\ harEvent = "error"
    /\ timers = <<>>

\* C29 as stated: starting from at most 5 items, the dashboard's alerts list
\* never shows more than 5 items, whatever calls of addNewAlert the 30-second
\* timer and the socket's 'alert' messages make.
C29_AtMostFiveAlerts ==
    script = "dashboard" => Len(Children(alertsList)) <= 5

-----------------------------------------------------------------------------
(* Claims about the Dream Analyzer (specification SpecDream)               *)

\* C30: the analyze button is disabled exactly while an analysis is in
\* progress, and at most one is: a click with text that is not blank
\* disables the button and begins an analysis; the end of an analysis,
\* with results or with the failure alert, enables it again; a click with
\* empty or blank text only alerts, leaving the button and the analyses as
\* they were.
C30_DisabledWhileAnalyzing ==
    /\ [](analyses <= 1 /\ (analyzeBtn.disabled <=> analyses = 1))
    /\ [][ /\ (Len(dreamLog') > Len(dreamLog) /\ analyses = 0
                  /\ Trim(dreamText) # "")
                => /\ analyzeBtn'.disabled /\ analyses' = 1
                   /\ dreamLog' = Append(dreamLog, "started")
           /\ (Len(dreamLog') > Len(dreamLog) /\ analyses = 0
                  /\ Trim(dreamText) = "")
                => /\ analyzeBtn' = analyzeBtn /\ analyses' = 0
                   /\ dreamLog' = Append(dreamLog, "alert: enter your dream")
           /\ analyses' < analyses
                => /\ ~analyzeBtn'.disabled
                   /\ dreamLog'[Len(dreamLog')]
                         \in {"results shown", "alert: failed to analyze"} ]_vars

\* C30 witness: a click with blank text has only alerted, an analysis begun
\* by the next click has thrown, and the button is enabled again.
C30_Witness ==
    /\ dreamLog = <<"alert: enter your dream", "started",
                    "alert: failed to analyze">>
    /\ ~analyzeBtn.disabled
    /\ analyses = 0

====
